---- MODULE Spec2Model ----
(***************************************************************************)
(* Verification model of the indexed priority queue (PriorityQueue.h) and  *)
(* of the weighted-graph queries Dijkstra and Prim (Graph/Graph.h).        *)
(*                                                                         *)
(* Spec      : the PriorityQueue<T> object driven by arbitrary calls.      *)
(* SpecTie   : the same queue constructed with a comparator that has ties. *)
(* SpecGraph : one Dijkstra or Prim call on a graph drawn from a bounded   *)
(*             set of built graphs.                                        *)
(* SpecGraphLive : SpecGraph with fairness, for termination.               *)
(* SpecBuild : a graph built and changed call by call, then queried.       *)
(* SpecKD    : a KDTree initialised and asked for a nearest neighbour.     *)
(*                                                                         *)
(* Slot numbers are 0-based as in the source; a vector is a TLA+ sequence, *)
(* so slot i of vector v is v[i + 1] (operator At).                        *)
(***************************************************************************)
EXTENDS Integers, Sequences, FiniteSets, TLC

\* ------------------------------------------------------------------ bounds
\* Keys of the queue are the integers 1..NumKeys.
NumKeys == 4

\* T() for T = int, returned by Remove on an empty queue.
DefaultT == 0

Keys == 1..NumKeys

\* Graphs have at most MaxVerts vertices; an edge weighs 0 or MaxW.
MaxVerts == 3

MaxW == 1

\* Points given to one Initialize of the KD-tree, and their largest coordinate.
MaxPoints == 3

MaxCoord == 1

\* The template parameter k of KDTree<Type, k>: points of the plane.
K == 2

\* The two sentinels handed to the Graph constructor.
mMinValue == 0

mMaxValue == 1000

\* ------------------------------------------------------------------ state
VARIABLES
    mData,      \* PriorityQueue::mData, the heap array
    mValToPos,  \* PriorityQueue::mValToPos, key -> slot
    mComp,      \* PriorityQueue::mComp, "less" (default) or "greater"
    mLock,      \* PriorityQueue::mLock, outstanding-handle counter
    handles,    \* the live ElementHandle objects, each with its mThisPos
    status,     \* "running", "terminated" (std::terminate) or "undefined"
    lastOp,     \* the last call made on the queue and what it returned
    run         \* history of the current add-then-remove scenario

pqVars == <<mData, mValToPos, mComp, mLock, handles, status, lastOp, run>>

VARIABLES
    mVertices,     \* Graph::mVertices of the queried graph
    mEdges,        \* Graph::mEdges, records [v1, v2, w]
    mEdgesCompact, \* Graph::mEdgesCompact, the triangular weight store
    outGraph,      \* *outGraph of Prim: [mVertices, mEdges, mEdgesCompact]
    outPath,       \* *outPath of Dijkstra
    outD,          \* *d of Dijkstra
    alg,           \* "none", "Dijkstra", "Prim" or "GetEdgeWeight": the call made
    gpc,           \* "idle", "loop", "relax", "done" or "undefined"
    sI,            \* argument sI
    dI,            \* argument dI of Dijkstra
    predecessors,  \* local predecessors (0-based slots, -1 for none)
    toBeCh,        \* local frontier heap, records [vI, w]
    vI,            \* local vI, the vertex extracted last
    vW,            \* local vW, its key
    relaxI,        \* loop variable i of the relaxation loop
    result,        \* the value returned by the call
    lookup,        \* GetEdgeWeight: arguments, local edgeW, value read by the caller
    hist           \* history: the last mutator called on the graph, the graph
                   \* before it, and whether UpdateEdges has run since

graphVars == <<mVertices, mEdges, mEdgesCompact>>

callVars == <<outGraph, outPath, outD, alg, gpc, sI, dI, predecessors,
              toBeCh, vI, vW, relaxI, result, lookup>>

gVars == <<graphVars, callVars, hist>>

VARIABLES
    mElements,  \* BinaryTree::mElements, records [first, second], slot 0 first
    kd          \* history: the points given to the last Initialize, whether it
                \* was the first one ("once") or a later one ("again"), the
                \* point queried and the index returned

kdVars == <<mElements, kd>>

vars == <<pqVars, gVars, kdVars>>

\* ---------------------------------------------------------------- helpers
At(v, i) == v[i + 1]

Range(v) == {v[k] : k \in 1..Len(v)}

EmptyMap == [k \in {} |-> 0]

MapErase(map, k) == [x \in (DOMAIN map) \ {k} |-> map[x]]

\* std::unordered_map::operator[] : a missing key is inserted with size_t().
MapIndex(map, k) == IF k \in DOMAIN map THEN map ELSE map @@ (k :> 0)

RemoveAt(v, k) == [j \in 1..(Len(v) - 1) |-> IF j < k THEN v[j] ELSE v[j + 1]]

\* ------------------------------------------------- PriorityQueue internals
\* The priority a comparator handed to the second constructor may compare
\* keys by: here key / 2, so that two distinct keys can have equal priority.
Coarse(a) == a \div 2

\* mComp(a, b); the default constructor installs std::less, the second
\* constructor any comparator, among them "greater" and "coarse".
Comp(kind, a, b) ==
    IF kind = "less" THEN a < b
    ELSE IF kind = "greater" THEN a > b
    ELSE Coarse(a) < Coarse(b)

GetParentPosition(child) == (child - 1) \div 2

GetLeftChildPosition(parent) == parent * 2 + 1

GetRightChildPosition(parent) == parent * 2 + 2

\* A heap state is a record [data, map, ups, downs]: the two containers and
\* the number of upward / downward swaps done by the current UpdatePriority.
HeapState(data, map) == [data |-> data, map |-> map, ups |-> 0, downs |-> 0]

SwapNoMap(st, e1, e2) ==
    LET e1V == At(st.data, e1)
        e2V == At(st.data, e2)
    IN  [st EXCEPT !.data = [st.data EXCEPT ![e1 + 1] = e2V, ![e2 + 1] = e1V]]

Swap(st, e1, e2) ==
    LET e1V == At(st.data, e1)
        e2V == At(st.data, e2)
        m   == MapIndex(MapIndex(st.map, e1V), e2V)
    IN  [st EXCEPT
            !.map  = [k \in DOMAIN m |->
                        IF k = e1V THEN m[e2V]
                        ELSE IF k = e2V THEN m[e1V]
                        ELSE m[k]],
            !.data = [st.data EXCEPT ![e1 + 1] = e2V, ![e2 + 1] = e1V]]

\* The child the bubble-down phase compares with (both children in bounds).
PickLeftAlways(kind, data, lcPos, rcPos) == lcPos

PickRightOnTie(kind, data, lcPos, rcPos) ==
    IF Comp(kind, At(data, rcPos), At(data, lcPos)) THEN lcPos ELSE rcPos

HigherPriorityChild(kind, data, lcPos, rcPos) ==
    IF Comp(kind, At(data, lcPos), At(data, rcPos)) THEN rcPos ELSE lcPos

BubbleUpUnconditional(kind, st, ePos) ==
    IF ePos # 0
    THEN LET pPos == GetParentPosition(ePos)
             s1   == Swap(st, pPos, ePos)
         IN  [st |-> [s1 EXCEPT !.ups = @ + 1], ePos |-> pPos]
    ELSE [st |-> st, ePos |-> ePos]

RECURSIVE BubbleUp(_, _, _)
BubbleUp(kind, st, ePos) ==
    IF ePos # 0 /\ Comp(kind, At(st.data, GetParentPosition(ePos)), At(st.data, ePos))
    THEN LET pPos == GetParentPosition(ePos)
             s1   == Swap(st, pPos, ePos)
         IN  BubbleUp(kind, [s1 EXCEPT !.ups = @ + 1], pPos)
    ELSE [st |-> st, ePos |-> ePos]

RECURSIVE BubbleDown(_, _, _)
BubbleDown(kind, st, ePos) ==
    LET lcPos == GetLeftChildPosition(ePos)
        rcPos == GetRightChildPosition(ePos)
    IN  IF lcPos >= Len(st.data)
        THEN [st |-> st, ePos |-> ePos]
        ELSE LET higherPriorityChildPos ==
                     IF rcPos >= Len(st.data)
                     THEN lcPos
                     ELSE HigherPriorityChild(kind, st.data, lcPos, rcPos)
             IN  IF Comp(kind, At(st.data, ePos), At(st.data, higherPriorityChildPos))
                 THEN LET s1 == Swap(st, ePos, higherPriorityChildPos)
                      IN  BubbleDown(kind, [s1 EXCEPT !.downs = @ + 1],
                                     higherPriorityChildPos)
                 ELSE [st |-> st, ePos |-> ePos]

UpdatePriority(kind, st, ePos) ==
    LET up == BubbleUp(kind, st, ePos)
    IN  BubbleDown(kind, up.st, up.ePos)

\* The guard "if (mLock >= 1) throw;" of Add, Remove and Clear.
NeverLocked(lock) == FALSE

LockedThrows(lock) == lock >= 1

\* The guard "if (mOwnerPt->mLock > 1) throw;" of the handle constructor,
\* evaluated on the already incremented counter.
CtorNeverThrows(lock) == FALSE

CtorThrows(lock) == lock > 1

\* "mValToPos.find(k) != mValToPos.end()" of Add and of Update.
AddNeverPresent(map, e) == FALSE

AddAlreadyPresent(map, e) == e \in DOMAIN map

UpdateNeverPresent(map, newVal) == FALSE

UpdateAlreadyPresent(map, newVal) == newVal \in DOMAIN map

\* The body of Add after its two early exits.
AddCoreNoRestore(kind, data, map, e) ==
    HeapState(Append(data, e), map @@ (e :> Len(data)))

AddCore(kind, data, map, e) ==
    LET ePos == Len(data)
    IN  UpdatePriority(kind, HeapState(Append(data, e), map @@ (e :> ePos)), ePos).st

\* The body of Remove after its two early exits (mData is not empty).
RemoveBackCore(kind, data, map) ==
    LET ret == data[Len(data)]
    IN  [ret |-> ret,
         st  |-> HeapState(SubSeq(data, 1, Len(data) - 1), MapErase(map, ret))]

RemoveCore(kind, data, map) ==
    LET s1  == Swap(HeapState(data, map), 0, Len(data) - 1)
        ret == s1.data[Len(s1.data)]
        s2  == HeapState(SubSeq(s1.data, 1, Len(s1.data) - 1), MapErase(s1.map, ret))
    IN  [ret |-> ret, st |-> UpdatePriority(kind, s2, 0).st]

UpdateCoreStaleSlot(kind, data, map, thisPos, newVal) ==
    LET m1 == MapErase(map, At(data, thisPos))
        d1 == [data EXCEPT ![thisPos + 1] = newVal]
        m2 == [k \in (DOMAIN m1) \cup {newVal} |->
                  IF k = newVal THEN thisPos ELSE m1[k]]
    IN  [st |-> UpdatePriority(kind, HeapState(d1, m2), thisPos).st,
         thisPos |-> thisPos]

\* The body of ElementHandle::Update after its early exit (slot in bounds).
UpdateCore(kind, data, map, thisPos, newVal) ==
    LET oldVal == At(data, thisPos)
        m1     == MapErase(map, oldVal)
        d1     == [data EXCEPT ![thisPos + 1] = newVal]
        m2     == [k \in (DOMAIN m1) \cup {newVal} |->
                      IF k = newVal THEN thisPos ELSE m1[k]]
        st     == UpdatePriority(kind, HeapState(d1, m2), thisPos).st
    IN  [st |-> st, thisPos |-> st.map[newVal]]

\* What an out-of-bounds vector access may leave behind in the containers.
GarbageData == {<<>>} \cup {<<a>> : a \in Keys} \cup {<<a, b>> : a, b \in Keys}

\* ---------------------------------------------------------------- history
FreshRun == [phase |-> "adding", added |-> {}, removed |-> <<>>]

OffRun == [phase |-> "off", added |-> {}, removed |-> <<>>]

\* A call record: the method, its argument, how it ended ("ok", "throw",
\* "undefined", "true", "false", "present", "added") and the value returned.
Call(op, arg, outcome, ret) == [op |-> op, arg |-> arg, outcome |-> outcome, ret |-> ret]

\* No GetEdgeWeight call made yet.
NoLookup == [v1 |-> 0, v2 |-> 0, edgeW |-> 0, read |-> 0]

\* The history record: the operation of Graph called last, its argument, the
\* graph it was called on, and "stale": a mutator ran after the last
\* UpdateEdges (or UpdateEdges never ran on a graph that has vertices).
Mutation(op, arg, prev, stale) == [op |-> op, arg |-> arg, prev |-> prev, stale |-> stale]

NoGraph == [mVertices |-> <<>>, mEdges |-> <<>>, mEdgesCompact |-> <<>>]

Constructed == Mutation("Graph", 0, NoGraph, FALSE)

\* The tree variables of a default-constructed KDTree that is never used.
NoElement == [first |-> FALSE, second |-> [i \in 1..K |-> 0]]

NoQuery == [data |-> <<>>, built |-> "no", point |-> <<>>, index |-> 0]

TreeUnused == mElements = <<NoElement>> /\ kd = NoQuery

\* The graph variables while only the queue is exercised.
GraphUnused ==
    /\ mVertices = <<>> /\ mEdges = <<>> /\ mEdgesCompact = <<>>
    /\ outGraph = [mVertices |-> <<>>, mEdges |-> <<>>, mEdgesCompact |-> <<>>]
    /\ outPath = <<>> /\ outD = 0
    /\ alg = "none" /\ gpc = "idle" /\ sI = 0 /\ dI = 0
    /\ predecessors = <<>> /\ toBeCh = <<>>
    /\ vI = 0 /\ vW = 0 /\ relaxI = 0 /\ result = FALSE
    /\ lookup = NoLookup
    /\ hist = Constructed

\* ------------------------------------------------------------------- Init
Init ==
    /\ mData = <<>>
    /\ mValToPos = EmptyMap
    /\ mComp \in {"less", "greater"}
    /\ mLock = 0
    /\ handles = <<>>
    /\ status = "running"
    /\ lastOp = Call("ctor", 0, "ok", 0)
    /\ run = FreshRun
    /\ GraphUnused
    /\ TreeUnused

\* std::terminate, reached through "throw;" with no active exception.
Terminate(op, arg) ==
    /\ status' = "terminated"
    /\ lastOp' = Call(op, arg, "throw", 0)
    /\ UNCHANGED <<mData, mValToPos, mComp, mLock, handles, run>>

\* An out-of-bounds access of mData: the run aborts, or it goes on with
\* unpredictable container contents.
Undefined(op, arg) ==
    /\ lastOp' = Call(op, arg, "undefined", 0)
    /\ run' = OffRun
    /\ \/ /\ status' = "terminated"
          /\ UNCHANGED <<mData, mValToPos>>
       \/ /\ status' = "undefined"
          /\ mData' \in GarbageData
          /\ UNCHANGED mValToPos
    /\ UNCHANGED <<mComp, mLock, handles>>

\* ---------------------------------------------------------------- actions
Empty ==
    /\ status = "running"
    /\ lastOp' = Call("Empty", 0, IF mData = <<>> THEN "true" ELSE "false", 0)
    /\ UNCHANGED <<mData, mValToPos, mComp, mLock, handles, status, run>>

Add(e) ==
    /\ status = "running"
    /\ IF LockedThrows(mLock)
       THEN Terminate("Add", e)
       ELSE IF AddAlreadyPresent(mValToPos, e)
       THEN /\ lastOp' = Call("Add", e, "present", 0)
            /\ run' = IF run.phase = "adding"
                      THEN [run EXCEPT !.added = @ \cup {e}]
                      ELSE OffRun
            /\ UNCHANGED <<mData, mValToPos, mComp, mLock, handles, status>>
       ELSE LET st == AddCore(mComp, mData, mValToPos, e)
            IN  /\ mData' = st.data
                /\ mValToPos' = st.map
                /\ lastOp' = Call("Add", e, "added", 0)
                /\ run' = IF run.phase = "adding"
                          THEN [run EXCEPT !.added = @ \cup {e}]
                          ELSE OffRun
                /\ UNCHANGED <<mComp, mLock, handles, status>>

Remove ==
    /\ status = "running"
    /\ IF LockedThrows(mLock)
       THEN Terminate("Remove", 0)
       ELSE IF DOMAIN mValToPos = {}
       THEN /\ lastOp' = Call("Remove", 0, "ok", DefaultT)
            /\ run' = OffRun
            /\ UNCHANGED <<mData, mValToPos, mComp, mLock, handles, status>>
       ELSE IF mData = <<>>
       THEN Undefined("Remove", 0)
       ELSE LET r == RemoveCore(mComp, mData, mValToPos)
            IN  /\ mData' = r.st.data
                /\ mValToPos' = r.st.map
                /\ lastOp' = Call("Remove", 0, "ok", r.ret)
                /\ run' = IF run.phase \in {"adding", "removing"}
                          THEN [run EXCEPT !.phase = "removing",
                                           !.removed = Append(@, r.ret)]
                          ELSE OffRun
                /\ UNCHANGED <<mComp, mLock, handles, status>>

PeekBack(data) == data[Len(data)]

\* The value of "mData.front()" on a non-empty vector.
PeekFront(data) == data[1]

\* PriorityQueue::Peek: no lock guard and no emptiness test; front() of an
\* empty vector is an out-of-bounds read.
Peek ==
    /\ status = "running"
    /\ IF mData = <<>>
       THEN Undefined("Peek", 0)
       ELSE /\ lastOp' = Call("Peek", 0, "ok", PeekFront(mData))
            /\ UNCHANGED <<mData, mValToPos, mComp, mLock, handles, status, run>>

Clear ==
    /\ status = "running"
    /\ IF LockedThrows(mLock)
       THEN Terminate("Clear", 0)
       ELSE /\ mData' = <<>>
            /\ mValToPos' = EmptyMap
            /\ lastOp' = Call("Clear", 0, "ok", 0)
            /\ run' = FreshRun
            /\ UNCHANGED <<mComp, mLock, handles, status>>

\* GetElementHandle(e) together with the ElementHandle constructor it runs.
GetElementHandle(e) ==
    /\ status = "running"
    /\ LET m    == MapIndex(mValToPos, e)
           ePos == m[e]
       IN  /\ mValToPos' = m
           /\ mLock' = mLock + 1
           /\ IF CtorThrows(mLock + 1)
              THEN /\ status' = "terminated"
                   /\ lastOp' = Call("GetElementHandle", e, "throw", 0)
                   /\ UNCHANGED handles
              ELSE /\ handles' = Append(handles, [mThisPos |-> ePos])
                   /\ lastOp' = Call("GetElementHandle", e, "ok", ePos)
                   /\ UNCHANGED status
           /\ run' = OffRun
           /\ UNCHANGED <<mData, mComp>>

LockKept(lock) == lock

\* "mOwnerPt->mLock--" of the destructor.
LockReleased(lock) == lock - 1

\* ~ElementHandle of the h-th live handle.
ReleaseHandle(h) ==
    /\ status = "running"
    /\ h \in 1..Len(handles)
    /\ mLock' = LockReleased(mLock)
    /\ handles' = RemoveAt(handles, h)
    /\ lastOp' = Call("~ElementHandle", h, "ok", 0)
    /\ UNCHANGED <<mData, mValToPos, mComp, status, run>>

\* ElementHandle::Update(newVal) through the h-th live handle.
Update(h, newVal) ==
    /\ status = "running"
    /\ h \in 1..Len(handles)
    /\ IF UpdateAlreadyPresent(mValToPos, newVal)
       THEN /\ lastOp' = Call("Update", newVal, "false", 0)
            /\ UNCHANGED <<mData, mValToPos, mComp, mLock, handles, status, run>>
       ELSE IF handles[h].mThisPos >= Len(mData)
       THEN Undefined("Update", newVal)
       ELSE LET r == UpdateCore(mComp, mData, mValToPos, handles[h].mThisPos, newVal)
            IN  /\ mData' = r.st.data
                /\ mValToPos' = r.st.map
                /\ handles' = [handles EXCEPT ![h] = [mThisPos |-> r.thisPos]]
                /\ lastOp' = Call("Update", newVal, "true", 0)
                /\ run' = OffRun
                /\ UNCHANGED <<mComp, mLock, status>>

Next ==
    /\ UNCHANGED <<gVars, kdVars>>
    /\ \/ Empty
       \/ \E e \in Keys : Add(e)
       \/ Remove
       \/ Peek
       \/ Clear
       \/ \E e \in Keys : GetElementHandle(e)
       \/ \E h \in 1..Len(handles) : ReleaseHandle(h)
       \/ \E h \in 1..Len(handles), newVal \in Keys : Update(h, newVal)

Spec == Init /\ [][Next]_vars

\* A queue constructed with a comparator under which distinct keys can tie.
InitTie ==
    /\ mData = <<>>
    /\ mValToPos = EmptyMap
    /\ mComp = "coarse"
    /\ mLock = 0
    /\ handles = <<>>
    /\ status = "running"
    /\ lastOp = Call("ctor", 0, "ok", 0)
    /\ run = FreshRun
    /\ GraphUnused
    /\ TreeUnused

SpecTie == InitTie /\ [][Next]_vars

\* ============================================================ Graph model
Min(a, b) == IF a < b THEN a ELSE b

Max(a, b) == IF a > b THEN a ELSE b

IndexShortRows(n, x, y) == x - y - 1 + (n - 1) * y - (y * (y + 1)) \div 2

\* Graph::GetIndexForCompact with n = mVertices.size(); y*(y+1) is even, so
\* the product with 0.5f is exact for the vertex counts considered.
GetIndexForCompact(n, x, y) == x - y - 1 + n * y - (y * (y + 1)) \div 2

\* Number of slots the store is resized to.
CompactSize(n) == (n * (n - 1)) \div 2

\* Graph::UpdateEdges: every slot maxValue, then each edge in list order.
RECURSIVE WriteEdges(_, _, _, _)
WriteEdges(n, compact, edges, k) ==
    IF k > Len(edges) THEN compact
    ELSE LET index == GetIndexForCompact(n, edges[k].v2, edges[k].v1)
         IN  WriteEdges(n, [compact EXCEPT ![index + 1] = edges[k].w], edges, k + 1)

UpdateEdges(n, edges) ==
    WriteEdges(n, [k \in 1..CompactSize(n) |-> mMaxValue], edges, 1)

AddEdgeAsGiven(edges, v1, v2, weight) ==
    Append(edges, [v1 |-> v1, v2 |-> v2, w |-> weight])

\* Graph::AddEdge(v1, v2, weight) applied to an edge list.
AddEdge(edges, v1, v2, weight) ==
    Append(edges, [v1 |-> Min(v1, v2), v2 |-> Max(v1, v2), w |-> weight])

\* Whether the slot of the pair {a, b} lies inside the store.
InStore(n, compact, a, b) ==
    GetIndexForCompact(n, Max(a, b), Min(a, b)) < Len(compact)

\* The lookup "mEdgesCompact[GetIndexForCompact(max(vI, uI), min(vI, uI))]"
\* of the two relaxation loops and of Prim's reconstruction.
CompactWeight(n, compact, a, b) ==
    At(compact, GetIndexForCompact(n, Max(a, b), Min(a, b)))

\* The comparator cmp of make_heap / pop_heap: left.w > right.w.
Cmp(left, right) == left.w > right.w

\* A range is a heap under cmp when no parent compares "less" than a child.
IsHeap(h) ==
    \A k \in 1..(Len(h) - 1) : ~Cmp(At(h, (k - 1) \div 2), At(h, k))

\* std::make_heap and std::pop_heap only promise that the range becomes a
\* heap: every heap arrangement of the elements is a possible outcome.
HeapArrangements(h) ==
    {a \in {[k \in 1..Len(h) |-> h[p[k]]] : p \in Permutations(1..Len(h))} :
        IsHeap(a)}

\* Graph::HeapDecreaseKey: the loop, from currentNodeI.
RECURSIVE DecreaseKeyLoop(_, _)
DecreaseKeyLoop(heap, currentNodeI) ==
    IF currentNodeI = 0 THEN heap
    ELSE LET parentI     == (currentNodeI + 1) \div 2 - 1
             leftChildI  == 2 * (parentI + 1) - 1
             rightChildI == 2 * (parentI + 1) + 1 - 1
         IN  IF leftChildI >= Len(heap) /\ rightChildI >= Len(heap)
             THEN heap
             ELSE LET childToSwapWithI ==
                          IF leftChildI >= Len(heap) /\ rightChildI < Len(heap)
                          THEN rightChildI
                          ELSE IF leftChildI < Len(heap) /\ rightChildI >= Len(heap)
                          THEN leftChildI
                          ELSE IF At(heap, leftChildI).w < At(heap, rightChildI).w
                               THEN leftChildI
                               ELSE rightChildI
                  IN  IF At(heap, childToSwapWithI).w < At(heap, parentI).w
                      THEN DecreaseKeyLoop(
                               [heap EXCEPT ![parentI + 1] = At(heap, childToSwapWithI),
                                            ![childToSwapWithI + 1] = At(heap, parentI)],
                               parentI)
                      ELSE heap

HeapDecreaseKeySwapBack(heap, newValue, keyIndex) ==
    [heap EXCEPT ![keyIndex + 1] = heap[Len(heap)],
                 ![Len(heap)] = [heap[keyIndex + 1] EXCEPT !.w = newValue]]

HeapDecreaseKeyNoSift(heap, newValue, keyIndex) ==
    [heap EXCEPT ![keyIndex + 1].w = newValue]

HeapDecreaseKey(heap, newValue, keyIndex) ==
    DecreaseKeyLoop([heap EXCEPT ![keyIndex + 1].w = newValue], keyIndex)

\* The candidate key uW_new of the two relaxation loops.
CandidateEdgeOnly(vWeight, edgeW) == edgeW

DijkstraCandidate(vWeight, edgeW) == vWeight + edgeW

CandidateCumulative(vWeight, edgeW) == vWeight + edgeW

PrimCandidate(vWeight, edgeW) == edgeW

\* uW_new of the algorithm a.
Candidate(a, vWeight, edgeW) ==
    IF a = "Dijkstra" THEN DijkstraCandidate(vWeight, edgeW)
    ELSE PrimCandidate(vWeight, edgeW)

RelaxSlotSwappedPred(n, compact, heap, preds, a, v, vWeight, i) ==
    LET uI    == At(heap, i).vI
        edgeW == CompactWeight(n, compact, v, uI)
    IN  IF edgeW # mMaxValue /\ Candidate(a, vWeight, edgeW) < At(heap, i).w
        THEN [heap  |-> HeapDecreaseKey(heap, Candidate(a, vWeight, edgeW), i),
              preds |-> [preds EXCEPT ![v + 1] = uI]]
        ELSE [heap |-> heap, preds |-> preds]

RelaxSlotFirstPred(n, compact, heap, preds, a, v, vWeight, i) ==
    LET uI    == At(heap, i).vI
        edgeW == CompactWeight(n, compact, v, uI)
    IN  IF edgeW # mMaxValue /\ Candidate(a, vWeight, edgeW) < At(heap, i).w
        THEN [heap  |-> HeapDecreaseKey(heap, Candidate(a, vWeight, edgeW), i),
              preds |-> IF At(preds, uI) = -1 THEN [preds EXCEPT ![uI + 1] = v]
                        ELSE preds]
        ELSE [heap |-> heap, preds |-> preds]

\* One iteration of the relaxation loop of algorithm a on frontier slot i,
\* after vertex v with key vWeight was extracted.
RelaxSlot(n, compact, heap, preds, a, v, vWeight, i) ==
    LET uI    == At(heap, i).vI
        edgeW == CompactWeight(n, compact, v, uI)
    IN  IF edgeW = mMaxValue
        THEN [heap |-> heap, preds |-> preds]
        ELSE IF Candidate(a, vWeight, edgeW) < At(heap, i).w
        THEN [heap  |-> HeapDecreaseKey(heap, Candidate(a, vWeight, edgeW), i),
              preds |-> [preds EXCEPT ![uI + 1] = v]]
        ELSE [heap |-> heap, preds |-> preds]

WalkPastSource(preds, s, vertI, path) == [ok |-> FALSE, path |-> Append(path, vertI)]

\* The do-while of Dijkstra that walks the predecessors from vertI to s.
\* "ok" is FALSE when the walk reads predecessors[-1] or never reaches s.
RECURSIVE WalkPredecessors(_, _, _, _)
WalkPredecessors(preds, s, vertI, path) ==
    LET next == At(preds, vertI)
        p1   == Append(path, vertI)
    IN  IF next = s THEN [ok |-> TRUE, path |-> Append(p1, s)]
        ELSE IF next = -1 \/ Len(p1) > Len(preds) THEN [ok |-> FALSE, path |-> p1]
        ELSE WalkPredecessors(preds, s, next, p1)

TreeEdgesToSource(n, compact, preds, s, edges, i) ==
    edges \o SelectSeq([k \in 1..n |->
                           [v1 |-> Min(s, k - 1), v2 |-> Max(s, k - 1),
                            w  |-> IF k - 1 = s THEN mMaxValue
                                   ELSE CompactWeight(n, compact, s, k - 1)]],
                       LAMBDA e : e.v1 # e.v2)

\* The "create edges" loop of Prim, from vertex i on.
RECURSIVE TreeEdges(_, _, _, _, _, _)
TreeEdges(n, compact, preds, s, edges, i) ==
    IF i >= n THEN edges
    ELSE IF i = s THEN TreeEdges(n, compact, preds, s, edges, i + 1)
    ELSE LET pred == At(preds, i)
         IN  TreeEdges(n, compact, preds, s,
                       AddEdge(edges, pred, i, CompactWeight(n, compact, pred, i)),
                       i + 1)

AllSentinelFrontier(n, s) == [k \in 1..n |-> [vI |-> k - 1, w |-> mMaxValue]]

\* The initial frontier and predecessor arrays of both algorithms.
InitialFrontier(n, s) ==
    [k \in 1..n |-> [vI |-> k - 1, w |-> IF k - 1 = s THEN mMinValue ELSE mMaxValue]]

InitialPredecessors(n) == [k \in 1..n |-> -1]

\* ------------------------------------------------------ the queried graphs
Weights == {0, MaxW}

VertexValue(k) == 100 + k

\* The vertex pairs (x, y), y < x < n, an edge may join.
VertexPairs(n) == {q \in (0..(n - 1)) \X (0..(n - 1)) : q[2] < q[1]}

\* The pairs numbered from 0, ordered by y and then by x.
PairOf(n, idx) ==
    CHOOSE pr \in VertexPairs(n) :
        Cardinality({q \in VertexPairs(n) :
                        q[2] < pr[2] \/ (q[2] = pr[2] /\ q[1] < pr[1])}) = idx

\* The edge list of the graph whose weights are given pair by pair.
EdgeListOf(n, wts) ==
    SelectSeq([k \in 1..Cardinality(VertexPairs(n)) |->
                  [v1 |-> PairOf(n, k - 1)[2], v2 |-> PairOf(n, k - 1)[1], w |-> wts[k]]],
              LAMBDA e : e.w # mMaxValue)

\* The scenario A-B:1, B-C:2, A-C:4, C-D:1 (A, B, C, D at slots 0..3).
ScenarioVertices == <<VertexValue(0), VertexValue(1), VertexValue(2), VertexValue(3)>>

ScenarioEdges ==
    AddEdge(AddEdge(AddEdge(AddEdge(<<>>, 0, 1, 1), 1, 2, 2), 0, 2, 4), 2, 3, 1)

EmptyGraph == [mVertices |-> <<>>, mEdges |-> <<>>, mEdgesCompact |-> <<>>]

\* What *outGraph may hold before a Prim call.
PriorOutGraphs ==
    {EmptyGraph,
     [mVertices |-> <<VertexValue(7), VertexValue(8)>>,
      mEdges |-> AddEdge(<<>>, 0, 1, 1),
      mEdgesCompact |-> <<1>>]}

\* What *outPath and *d may hold before a Dijkstra call.
PriorPaths == {<<>>, <<1, 0>>}

PriorDistances == {mMinValue, 1}

InitGraph ==
    /\ \/ \E n \in 1..MaxVerts :
             \E wts \in [1..Cardinality(VertexPairs(n)) -> Weights \cup {mMaxValue}] :
                 /\ mVertices = [k \in 1..n |-> VertexValue(k - 1)]
                 /\ mEdges = EdgeListOf(n, wts)
       \/ /\ mVertices = ScenarioVertices
          /\ mEdges = ScenarioEdges
    /\ mEdgesCompact = UpdateEdges(Len(mVertices), mEdges)
    \* the call to be made, and what its output arguments hold before it
    /\ \/ /\ alg = "Dijkstra"
          /\ outPath \in PriorPaths
          /\ outD \in PriorDistances
          /\ outGraph = EmptyGraph
       \/ /\ alg = "Prim"
          /\ outGraph \in PriorOutGraphs
          /\ outPath = <<>>
          /\ outD = mMinValue
       \/ /\ alg = "GetEdgeWeight"
          /\ outGraph = EmptyGraph
          /\ outPath = <<>>
          /\ outD = mMinValue
    /\ gpc = "idle" /\ sI = 0 /\ dI = 0
    /\ predecessors = <<>> /\ toBeCh = <<>>
    /\ vI = 0 /\ vW = 0 /\ relaxI = 0 /\ result = FALSE
    /\ lookup = NoLookup
    /\ hist = Mutation("UpdateEdges", 0, NoGraph, FALSE)
    \* the queue is not used by the graph
    /\ mData = <<>> /\ mValToPos = EmptyMap /\ mComp = "less" /\ mLock = 0
    /\ handles = <<>> /\ status = "running"
    /\ lastOp = Call("ctor", 0, "ok", 0) /\ run = FreshRun
    /\ TreeUnused

NumVerts == Len(mVertices)

\* --------------------------------------------------------- Dijkstra, Prim
NoTrivialCase(s, d) == FALSE

\* "if (sI == dI)": the trivial case.
TrivialCase(s, d) == s = d

PathKept(path) == path

\* "outPath->clear()" on entry to Dijkstra.
PathCleared(path) == <<>>

\* Dijkstra(sI, dI, outPath, d) up to and including make_heap.
DijkstraEnter(s, d) ==
    /\ gpc = "idle"
    /\ alg = "Dijkstra"
    /\ sI' = s /\ dI' = d
    /\ IF TrivialCase(s, d)
       THEN /\ outPath' = Append(PathCleared(outPath), s)
            /\ outD' = mMinValue
            /\ result' = TRUE
            /\ gpc' = "done"
            /\ UNCHANGED <<predecessors, toBeCh>>
       ELSE /\ outPath' = PathCleared(outPath)
            /\ outD' = mMinValue
            /\ predecessors' = InitialPredecessors(NumVerts)
            /\ toBeCh' \in HeapArrangements(InitialFrontier(NumVerts, s))
            /\ gpc' = "loop"
            /\ UNCHANGED result
    /\ UNCHANGED <<graphVars, outGraph, alg, vI, vW, relaxI, lookup>>

\* Prim(sI, outGraph) up to and including make_heap.
PrimEnter(s) ==
    /\ gpc = "idle"
    /\ alg = "Prim"
    /\ sI' = s
    /\ outGraph' = [outGraph EXCEPT !.mEdges = <<>>]
    /\ predecessors' = InitialPredecessors(NumVerts)
    /\ toBeCh' \in HeapArrangements(InitialFrontier(NumVerts, s))
    /\ gpc' = "loop"
    /\ UNCHANGED <<graphVars, outPath, outD, alg, dI, vI, vW, relaxI, result, lookup>>

NeverUnreachable(vWeight) == FALSE

\* "if (vW == mMaxValue)": the smallest frontier key is the sentinel, so no
\* frontier vertex can be reached.
Unreachable(vWeight) == vWeight = mMaxValue

\* One pass through the head of the while loop: pop_heap, pop_back and the
\* tests that follow, up to the start of the relaxation loop.
ExtractMin ==
    /\ gpc = "loop"
    /\ toBeCh # <<>>
    /\ LET back == toBeCh[1]
       IN  /\ vI' = back.vI
           /\ vW' = back.w
           /\ \E rest \in HeapArrangements(SubSeq(toBeCh, 2, Len(toBeCh))) :
                  toBeCh' = rest
           /\ IF Unreachable(back.w)
              THEN /\ result' = FALSE
                   /\ gpc' = "done"
                   /\ UNCHANGED <<outPath, outD>>
              ELSE IF alg = "Dijkstra" /\ back.vI = dI
              THEN LET walk == WalkPredecessors(predecessors, sI, dI, <<>>)
                   IN  /\ outPath' = walk.path
                       /\ IF walk.ok
                          THEN /\ outD' = back.w
                               /\ result' = TRUE
                               /\ gpc' = "done"
                          ELSE /\ gpc' = "undefined"
                               /\ UNCHANGED <<outD, result>>
              ELSE /\ gpc' = "relax"
                   /\ UNCHANGED <<outPath, outD, result>>
    /\ relaxI' = 0
    /\ UNCHANGED <<graphVars, outGraph, alg, sI, dI, predecessors, lookup>>

\* One iteration of the for loop over the frontier slots, or its exit. The
\* subscript mEdgesCompact[ceI] is unchecked: a read past the end of the store
\* leaves the run undefined.
Relax ==
    /\ gpc = "relax"
    /\ IF relaxI < Len(toBeCh)
       THEN IF InStore(NumVerts, mEdgesCompact, vI, At(toBeCh, relaxI).vI)
            THEN LET r == RelaxSlot(NumVerts, mEdgesCompact, toBeCh, predecessors,
                                    alg, vI, vW, relaxI)
                 IN  /\ toBeCh' = r.heap
                     /\ predecessors' = r.preds
                     /\ relaxI' = relaxI + 1
                     /\ UNCHANGED gpc
            ELSE /\ gpc' = "undefined"
                 /\ UNCHANGED <<toBeCh, predecessors, relaxI>>
       ELSE /\ gpc' = "loop"
            /\ UNCHANGED <<toBeCh, predecessors, relaxI>>
    /\ UNCHANGED <<graphVars, outGraph, outPath, outD, alg, sI, dI, vI, vW, result,
                   lookup>>

\* The queried graph as one object.
This == [mVertices |-> mVertices, mEdges |-> mEdges, mEdgesCompact |-> mEdgesCompact]

PrimReconstructOnThis(g, out, preds, s) ==
    LET verts == out.mVertices \o g.mVertices
    IN  [this |-> [g EXCEPT !.mEdges = TreeEdges(Len(g.mVertices), g.mEdgesCompact,
                                                 preds, s, g.mEdges, 0)],
         out  |-> [mVertices |-> verts, mEdges |-> out.mEdges,
                   mEdgesCompact |-> UpdateEdges(Len(verts), out.mEdges)]]

\* The reconstruction of Prim: the queried graph g (const) and the output
\* object after the vertex copy, the "create edges" loop and UpdateEdges.
PrimReconstruct(g, out, preds, s) ==
    LET verts == out.mVertices \o g.mVertices
        edges == TreeEdges(Len(g.mVertices), g.mEdgesCompact, preds, s, out.mEdges, 0)
    IN  [this |-> g,
         out  |-> [mVertices |-> verts, mEdges |-> edges,
                   mEdgesCompact |-> UpdateEdges(Len(verts), edges)]]

\* The while loop ends with an empty frontier.
FrontierExhausted ==
    /\ gpc = "loop"
    /\ toBeCh = <<>>
    /\ IF alg = "Dijkstra"
       THEN /\ result' = FALSE
            /\ UNCHANGED <<graphVars, outGraph>>
       ELSE LET r == PrimReconstruct(This, outGraph, predecessors, sI)
            IN  /\ mVertices' = r.this.mVertices
                /\ mEdges' = r.this.mEdges
                /\ mEdgesCompact' = r.this.mEdgesCompact
                /\ outGraph' = r.out
                /\ result' = TRUE
    /\ gpc' = "done"
    /\ UNCHANGED <<outPath, outD, alg, sI, dI, predecessors, toBeCh,
                   vI, vW, relaxI, lookup>>

\* What a read through a reference to a local of a returned call may give:
\* the value the local held, or whatever has taken its place.
DanglingReads(edgeW) == {edgeW} \cup Weights \cup {mMaxValue}

\* GetEdgeWeight(v1, v2) and the caller's read of the returned reference.
\* The function copies the slot into the local edgeW and returns a reference
\* to that local, which no longer exists when the caller reads it: the read
\* aborts the run or yields one of DanglingReads. A slot past the end of the
\* store reads as any value.
GetEdgeWeight(v1, v2) ==
    /\ gpc = "idle"
    /\ alg = "GetEdgeWeight"
    /\ v1 # v2
    /\ LET lo    == Min(v1, v2)
           hi    == Max(v1, v2)
           ceI   == GetIndexForCompact(NumVerts, hi, lo)
           slot  == IF ceI < Len(mEdgesCompact) THEN {At(mEdgesCompact, ceI)}
                    ELSE Weights \cup {mMaxValue}
       IN  \E edgeW \in slot :
               \/ /\ gpc' = "undefined"
                  /\ lookup' = [v1 |-> v1, v2 |-> v2, edgeW |-> edgeW, read |-> 0]
               \/ /\ gpc' = "done"
                  /\ \E r \in DanglingReads(edgeW) :
                         lookup' = [v1 |-> v1, v2 |-> v2, edgeW |-> edgeW, read |-> r]
    /\ UNCHANGED <<graphVars, outGraph, outPath, outD, alg, sI, dI, predecessors,
                   toBeCh, vI, vW, relaxI, result>>

NextGraph ==
    /\ UNCHANGED <<pqVars, hist, kdVars>>
    /\ \/ \E s, d \in 0..(NumVerts - 1) : DijkstraEnter(s, d)
       \/ \E s \in 0..(NumVerts - 1) : PrimEnter(s)
       \/ ExtractMin
       \/ Relax
       \/ FrontierExhausted
       \/ \E v1, v2 \in 0..(NumVerts - 1) : GetEdgeWeight(v1, v2)

SpecGraph == InitGraph /\ [][NextGraph]_vars

\* ------------------------------------------------------- building a graph
\* RemoveVertexAt decrements the endpoints above the removed index.
Renumbered(edge, index) ==
    [edge EXCEPT !.v1 = IF @ > index THEN @ - 1 ELSE @,
                 !.v2 = IF @ > index THEN @ - 1 ELSE @]

RemoveVertexEdgesKeepNumbers(edges, index, eI) ==
    SelectSeq(edges, LAMBDA e : e.v1 # index /\ e.v2 # index)

\* The while loop of Graph::RemoveVertexAt over mEdges, from position eI on:
\* an edge that touches index is erased (eI stays), any other edge has its
\* endpoints above index decremented (eI advances).
RECURSIVE RemoveVertexEdges(_, _, _)
RemoveVertexEdges(edges, index, eI) ==
    IF eI = Len(edges) THEN edges
    ELSE IF At(edges, eI).v1 = index \/ At(edges, eI).v2 = index
    THEN RemoveVertexEdges(RemoveAt(edges, eI + 1), index, eI)
    ELSE RemoveVertexEdges([edges EXCEPT ![eI + 1] = Renumbered(@, index)],
                           index, eI + 1)

\* The number of edges a client adds to one graph.
MaxEdges == MaxVerts - 1

\* A client is between calls on the graph and has started no query.
Building == gpc = "idle" /\ alg = "none"

\* The vertex values a client adds: the value after the last one of the
\* graph, so that the values in a graph are distinct.
NewVertices ==
    {VertexValue(k) : k \in {j \in 0..(MaxVerts - 1) :
        IF mVertices = <<>> THEN j = 0
        ELSE VertexValue(j) = mVertices[NumVerts] + 1}}

\* The clients considered rebuild the store after each change to a graph
\* whose store has been built, before they change the graph again.
MayMutate == Building /\ (~hist.stale \/ mEdgesCompact = <<>>)

\* Two AddEdge calls named the same pair of vertices.
HasDuplicateEdge(edges) ==
    \E i, j \in 1..Len(edges) :
        i < j /\ edges[i].v1 = edges[j].v1 /\ edges[i].v2 = edges[j].v2

\* The graphs a client queries: the stale ones, and the ones whose store is
\* up to date and that hold two edges for one pair.
MayQuery ==
    /\ Building
    /\ NumVerts > 0
    /\ \/ hist.stale /\ NumVerts < MaxVerts /\ Len(mEdges) < MaxEdges
       \/ ~hist.stale /\ HasDuplicateEdge(mEdges)

\* Graph::AddVertex(vert).
AddVertex(vert) ==
    /\ MayMutate
    /\ NumVerts < MaxVerts
    /\ mVertices' = Append(mVertices, vert)
    /\ hist' = Mutation("AddVertex", <<vert>>, NoGraph, TRUE)
    /\ UNCHANGED <<mEdges, mEdgesCompact, callVars>>

\* Graph::AddEdge(v1, v2, weight) called by a client: assert(v1 != v2) ends
\* the run, otherwise the canonical edge is appended.
CallAddEdge(v1, v2, weight) ==
    /\ MayMutate
    /\ Len(mEdges) < MaxEdges
    /\ IF v1 # v2
       THEN /\ mEdges' = AddEdge(mEdges, v1, v2, weight)
            /\ hist' = Mutation("AddEdge", <<v1, v2, weight>>, NoGraph, TRUE)
            /\ UNCHANGED gpc
       ELSE /\ gpc' = "aborted"
            /\ hist' = Mutation("AddEdge", <<v1, v2, weight>>, NoGraph, hist.stale)
            /\ UNCHANGED mEdges
    /\ UNCHANGED <<mVertices, mEdgesCompact, outGraph, outPath, outD, alg, sI, dI,
                   predecessors, toBeCh, vI, vW, relaxI, result, lookup>>

\* Graph::RemoveVertexAt(index).
RemoveVertexAt(index) ==
    /\ MayMutate
    /\ mVertices' = RemoveAt(mVertices, index + 1)
    /\ mEdges' = RemoveVertexEdges(mEdges, index, 0)
    /\ hist' = Mutation("RemoveVertexAt", <<index>>, This, TRUE)
    /\ UNCHANGED <<mEdgesCompact, callVars>>

\* Graph::Clear().
GraphClear ==
    /\ Building
    /\ mVertices' = <<>> /\ mEdges' = <<>> /\ mEdgesCompact' = <<>>
    /\ hist' = Mutation("Clear", <<>>, NoGraph, FALSE)
    /\ UNCHANGED callVars

\* Graph::UpdateEdges() called by a client.
CallUpdateEdges ==
    /\ Building
    /\ hist.stale
    /\ mEdgesCompact' = UpdateEdges(NumVerts, mEdges)
    /\ hist' = [hist EXCEPT !.stale = FALSE]
    /\ UNCHANGED <<mVertices, mEdges, callVars>>

\* The client starts query a on the graph as it stands; the record of the
\* graph before a removal is dropped.
BeginCall(a) ==
    /\ MayQuery
    /\ alg' = a
    /\ hist' = [hist EXCEPT !.prev = NoGraph]
    /\ UNCHANGED <<graphVars, outGraph, outPath, outD, gpc, sI, dI,
                   predecessors, toBeCh, vI, vW, relaxI, result, lookup>>

\* A default-constructed graph and no call made yet.
InitBuild ==
    /\ GraphUnused
    /\ TreeUnused
    /\ mData = <<>> /\ mValToPos = EmptyMap /\ mComp = "less" /\ mLock = 0
    /\ handles = <<>> /\ status = "running"
    /\ lastOp = Call("ctor", 0, "ok", 0) /\ run = FreshRun

NextBuild ==
    \/ /\ UNCHANGED <<pqVars, kdVars>>
       /\ \/ \E vert \in NewVertices : AddVertex(vert)
          \/ \E v1, v2 \in 0..(NumVerts - 1), weight \in Weights :
                 CallAddEdge(v1, v2, weight)
          \/ \E index \in 0..(NumVerts - 1) : RemoveVertexAt(index)
          \/ GraphClear
          \/ CallUpdateEdges
          \/ \E a \in {"Dijkstra", "Prim", "GetEdgeWeight"} : BeginCall(a)
    \/ NextGraph

SpecBuild == InitBuild /\ [][NextBuild]_vars

\* ========================================================== KD-tree model
Coords == 0..MaxCoord

\* The values of std::array<Type, k>.
Points == [1..K -> Coords]

\* BinaryTree::GetDepth: (unsigned int)log2(nodeIndex).
RECURSIVE GetDepth(_)
GetDepth(nodeIndex) ==
    IF nodeIndex <= 1 THEN 0 ELSE 1 + GetDepth(nodeIndex \div 2)

\* KDTree::GetSplittingAxis, an index into the 0-based array.
GetSplittingAxis(nodeIndex) == GetDepth(nodeIndex) % K

GetLeftChildIndex(nodeIndex) == nodeIndex * 2

GetRightChildIndex(nodeIndex) == nodeIndex * 2 + 1

\* KDTree::GetChildIndex, side 0 left and 1 right.
GetChildIndex(nodeIndex, side) ==
    IF side = 1 THEN GetRightChildIndex(nodeIndex) ELSE GetLeftChildIndex(nodeIndex)

\* BinaryTree::IsNode and GetElement on the element array.
IsNode(elements, nodeIndex) ==
    nodeIndex < Len(elements) /\ At(elements, nodeIndex).first

GetElement(elements, elementIndex) == At(elements, elementIndex).second

\* KDTree::GetDistanceSq, the sum over the axes below i.
RECURSIVE DistanceSqBelow(_, _, _)
DistanceSqBelow(p1, p2, i) ==
    IF i = 0 THEN 0
    ELSE DistanceSqBelow(p1, p2, i - 1) + (p1[i] - p2[i]) * (p1[i] - p2[i])

GetDistanceSq(p1, p2) == DistanceSqBelow(p1, p2, K)

\* BinaryTree::IncreaseDepth: the array doubles, new elements are not nodes.
IncreaseDepth(elements) == elements \o [j \in 1..Len(elements) |-> NoElement]

\* What std::sort may leave for data under "left[axis] < right[axis]": any
\* arrangement of data in which no element is less than its predecessor.
SortedBy(data, axis) ==
    {s \in {[i \in 1..Len(data) |-> data[f[i]]] : f \in Permutations(1..Len(data))} :
        \A i \in 1..(Len(s) - 1) : ~(s[i + 1][axis + 1] < s[i][axis + 1])}

\* The node written by CreateNode at nodeIndex, the array grown when needed.
PlaceNode(elements, nodeIndex, median) ==
    LET grown == IF nodeIndex >= Len(elements) THEN IncreaseDepth(elements)
                 ELSE elements
    IN  [grown EXCEPT ![nodeIndex + 1] = [first |-> TRUE, second |-> median]]

\* KDTree::CreateNode(data, dataElementsNumber, nodeIndex): the element
\* arrays it may leave, one for each outcome of the sorts.
RECURSIVE CreateNode(_, _, _)
CreateNode(elements, data, nodeIndex) ==
    IF Len(data) = 0 THEN {elements}
    ELSE UNION {
        LET medianIndex == Len(s) \div 2
            left    == SubSeq(s, 1, medianIndex)
            right   == SubSeq(s, medianIndex + 2, Len(s))
            placed  == PlaceNode(elements, nodeIndex, s[medianIndex + 1])
        IN  UNION {CreateNode(e, right, GetRightChildIndex(nodeIndex)) :
                     e \in CreateNode(placed, left, GetLeftChildIndex(nodeIndex))}
        : s \in SortedBy(data, GetSplittingAxis(nodeIndex))}

\* KDTree::NearestNeighbourIndexSearch.
RECURSIVE NearestNeighbourIndexSearch(_, _, _)
NearestNeighbourIndexSearch(elements, nodeIndex, point) ==
    IF ~IsNode(elements, nodeIndex) THEN nodeIndex
    ELSE
    LET splittingAxis  == GetSplittingAxis(nodeIndex)
        splittingValue == GetElement(elements, nodeIndex)[splittingAxis + 1]
        first      == IF point[splittingAxis + 1] > splittingValue THEN 1 ELSE 0
        childIndex == GetChildIndex(nodeIndex, first)
        nodeDistanceSq == GetDistanceSq(point, GetElement(elements, nodeIndex))
        childNodeI == NearestNeighbourIndexSearch(elements, childIndex, point)
        childTaken == /\ IsNode(elements, childIndex)
                      /\ GetDistanceSq(point, GetElement(elements, childNodeI))
                         < nodeDistanceSq
        betterNodeI == IF childTaken THEN childNodeI ELSE nodeIndex
        betterNodeDistanceSq == GetDistanceSq(point, GetElement(elements, betterNodeI))
        distanceOnTheSplittingAxisSq ==
            (point[splittingAxis + 1] - splittingValue)
            * (point[splittingAxis + 1] - splittingValue)
        otherSideChildIndex == GetChildIndex(nodeIndex, 1 - first)
        bestOnOtherSideI ==
            NearestNeighbourIndexSearch(elements, otherSideChildIndex, point)
    IN  IF /\ distanceOnTheSplittingAxisSq < betterNodeDistanceSq
           /\ IsNode(elements, otherSideChildIndex)
           /\ GetDistanceSq(point, GetElement(elements, bestOnOtherSideI))
              < betterNodeDistanceSq
        THEN bestOnOtherSideI
        ELSE betterNodeI

\* The point lists given to Initialize: up to MaxPoints points, listed in one
\* order per collection (the sorts of CreateNode decide the order used).
RECURSIVE Rank(_, _)
Rank(p, i) == IF i = 0 THEN 0 ELSE Rank(p, i - 1) * (MaxCoord + 1) + p[i]

DataLists ==
    {d \in UNION {[1..n -> Points] : n \in 1..MaxPoints} :
        \A i \in 1..(Len(d) - 1) : Rank(d[i], K) <= Rank(d[i + 1], K)}

\* The points queried: the grid of the stored points and one step around it.
QueryPoints == [1..K -> -1..(MaxCoord + 1)]

\* The clients considered build a tree, rebuild it at most once and query it
\* after that (a query leaves the tree as it is).
MayInitialize == kd.built # "again" /\ kd.point = <<>>

\* KDTree::Initialize(data) with non-empty data, on the tree as it stands.
Initialize(data) ==
    /\ MayInitialize
    /\ mElements' \in CreateNode(mElements, data, 1)
    /\ kd' = [data |-> data, built |-> IF kd.built = "no" THEN "once" ELSE "again",
              point |-> <<>>, index |-> 0]

\* KDTree::FindNearestNeighbourIndex(point).
FindNearestNeighbourIndex(point) ==
    /\ kd.point = <<>>
    /\ kd' = [kd EXCEPT !.point = point,
                        !.index = NearestNeighbourIndexSearch(mElements, 1, point)]
    /\ UNCHANGED mElements

\* A default-constructed KDTree.
InitKD ==
    /\ TreeUnused
    /\ GraphUnused
    /\ mData = <<>> /\ mValToPos = EmptyMap /\ mComp = "less" /\ mLock = 0
    /\ handles = <<>> /\ status = "running"
    /\ lastOp = Call("ctor", 0, "ok", 0) /\ run = FreshRun

NextKD ==
    /\ UNCHANGED <<pqVars, gVars>>
    /\ \/ MayInitialize /\ \E data \in DataLists : Initialize(data)
       \/ \E point \in QueryPoints : FindNearestNeighbourIndex(point)

SpecKD == InitKD /\ [][NextKD]_vars

\* ======================================================= claims, queue part
Slots == 0..(Len(mData) - 1)

HeapOrdered(kind, data) ==
    \A i \in 1..(Len(data) - 1) :
        ~Comp(kind, At(data, GetParentPosition(i)), At(data, i))

PosConsistent(data, map) ==
    \A i \in 0..(Len(data) - 1) :
        At(data, i) \in DOMAIN map /\ map[At(data, i)] = i

\* C1: in every state reached by Add, Remove, Update and handle acquisition
\* and release (no out-of-bounds access executed), for every non-root slot i
\* the element at slot (i-1)/2 is not lower priority than the element at i.
C1_HeapInvariant ==
    status # "undefined" => HeapOrdered(mComp, mData)

C1_Witness ==
    /\ status = "running"
    /\ lastOp.op = "Update" /\ lastOp.outcome = "true"
    /\ Len(mData) >= 3
    /\ handles # <<>> /\ handles[1].mThisPos # 0

\* C2: after every mutating operation the position map sends the key stored
\* at every valid slot i to i, and a Swap of any two valid slots keeps it so.
C2_PositionMapConsistent ==
    status # "undefined" =>
        /\ PosConsistent(mData, mValToPos)
        /\ \A e1, e2 \in Slots :
               LET s == Swap(HeapState(mData, mValToPos), e1, e2)
               IN  PosConsistent(s.data, s.map)

C2_Witness ==
    /\ status = "running"
    /\ lastOp.op = "Remove" /\ lastOp.outcome = "ok"
    /\ Len(mData) >= 3
    /\ mData[1] # lastOp.ret

C7_UpdateDuplicateRejected ==
    [][(lastOp'.op = "Update" /\ lastOp'.arg \in Range(mData))
         => (lastOp'.outcome = "false" /\ status' = "running"
             /\ mData' = mData /\ mValToPos' = mValToPos
             /\ handles' = handles)]_vars

C7_Witness ==
    /\ lastOp.op = "Update" /\ lastOp.outcome = "false"
    /\ lastOp.arg \in Range(mData)
    /\ Len(mData) >= 2
    /\ handles # <<>> /\ At(mData, handles[1].mThisPos) # lastOp.arg

\* C8: n distinct keys added to a fresh queue and then removed n times come
\* back each exactly once, in non-increasing priority order, and the queue
\* is empty afterwards.
C8_ExtractOrder ==
    (status = "running" /\ run.phase = "removing") =>
        /\ \A i, j \in 1..Len(run.removed) :
               i < j => /\ ~Comp(mComp, run.removed[i], run.removed[j])
                        /\ run.removed[i] # run.removed[j]
        /\ Range(run.removed) \cup Range(mData) = run.added
        /\ Len(run.removed) + Len(mData) = Cardinality(run.added)
        /\ Len(run.removed) = Cardinality(run.added) =>
               /\ mData = <<>>
               /\ DOMAIN mValToPos = {}
               /\ Range(run.removed) = run.added

C8_Witness ==
    /\ status = "running"
    /\ run.phase = "removing"
    /\ Cardinality(run.added) = NumKeys
    /\ Len(run.removed) = NumKeys
    /\ mData = <<>>

\* C9: with no handle outstanding, Add of a key that is already stored
\* leaves the heap array and the position map unchanged.
C9_AddIdempotent ==
    [][(lastOp'.op = "Add" /\ lastOp'.arg \in Range(mData) /\ Len(handles) = 0)
         => (status' = "running" /\ mData' = mData
             /\ mValToPos' = mValToPos)]_vars

C9_Witness ==
    /\ status = "running"
    /\ lastOp.op = "Add" /\ lastOp.outcome = "present"
    /\ lastOp.arg \in Range(mData)
    /\ Len(mData) >= 2

\* C10: on a non-empty queue with no handle outstanding, Remove returns the
\* root key, which no stored key outranks; the heap then holds the previous
\* keys minus that one and the position map no longer has it.
C10_RemoveReturnsRoot ==
    [][(lastOp'.op = "Remove" /\ mData # <<>> /\ Len(handles) = 0)
         => (/\ status' = "running"
             /\ lastOp'.outcome = "ok"
             /\ lastOp'.ret = mData[1]
             /\ \A k \in Range(mData) : ~Comp(mComp, lastOp'.ret, k)
             /\ Range(mData') = Range(mData) \ {lastOp'.ret}
             /\ Len(mData') = Len(mData) - 1
             /\ lastOp'.ret \notin DOMAIN mValToPos')]_vars

C10_Witness ==
    /\ status = "running"
    /\ lastOp.op = "Remove" /\ lastOp.outcome = "ok"
    /\ lastOp.ret \in Keys
    /\ lastOp.ret \notin DOMAIN mValToPos
    /\ Len(mData) = NumKeys - 1

\* C11: on a non-empty queue, whatever calls came before, Peek returns a
\* stored key that no stored key outranks under the comparator (the largest
\* key with the default comparator, the smallest with the inverted one) and
\* leaves the heap array and the position map as they were.
C11_PeekHighestPriority ==
    [][(lastOp'.op = "Peek" /\ mData # <<>>)
         => (/\ status' = "running" /\ lastOp'.outcome = "ok"
             /\ lastOp'.ret \in Range(mData)
             /\ \A k \in Range(mData) : ~Comp(mComp, lastOp'.ret, k)
             /\ mComp = "less" => \A k \in Range(mData) : k <= lastOp'.ret
             /\ mComp = "greater" => \A k \in Range(mData) : k >= lastOp'.ret
             /\ mData' = mData
             /\ mValToPos' = mValToPos)]_vars

C11_Witness ==
    /\ status = "running"
    /\ lastOp.op = "Peek" /\ lastOp.outcome = "ok"
    /\ mComp = "greater"
    /\ Len(mData) = 3
    /\ Len(handles) = 1
    /\ lastOp.ret = mData[1]
    /\ lastOp.ret < mData[2] /\ lastOp.ret < mData[3]

\* C12: on an empty queue (no stored key, no handle) Remove and Peek both
\* end in an error outcome instead of returning a value, and the heap array
\* and the position map stay empty.
C12_EmptyQueueError ==
    [][(/\ lastOp'.op \in {"Remove", "Peek"}
        /\ mData = <<>> /\ DOMAIN mValToPos = {} /\ mLock = 0)
         => (/\ lastOp'.outcome = "throw"
             /\ mData' = <<>>
             /\ DOMAIN mValToPos' = {})]_vars

\* C13: a successful Update(newKey) leaves the handle tracking the slot
\* that holds newKey once the order is restored, and replaces exactly the
\* key of the slot tracked before the call; calls that are not a successful
\* Update and keep the handle alive move neither the keys nor the tracked
\* slot, so each successful Update through a handle replaces the key written
\* by the previous one and no other.
C13_HandleTracksUpdatedKey ==
    [][/\ (lastOp'.op = "Update" /\ lastOp'.outcome = "true")
            => (/\ Len(handles) = 1 /\ Len(handles') = 1
                /\ handles'[1].mThisPos < Len(mData')
                /\ At(mData', handles'[1].mThisPos) = lastOp'.arg
                /\ Len(mData') = Len(mData)
                /\ Range(mData') = (Range(mData) \ {At(mData, handles[1].mThisPos)})
                                      \cup {lastOp'.arg}
                /\ (lastOp.op = "Update" /\ lastOp.outcome = "true")
                      => At(mData, handles[1].mThisPos) = lastOp.arg)
       /\ (/\ Len(handles) = 1 /\ Len(handles') = 1 /\ status' = "running"
           /\ ~(lastOp'.op = "Update" /\ lastOp'.outcome = "true"))
            => (mData' = mData /\ handles' = handles)]_vars

C13_Witness ==
    /\ status = "running"
    /\ lastOp.op = "Update" /\ lastOp.outcome = "true"
    /\ Len(handles) = 1
    /\ Len(mData) = 3
    /\ handles[1].mThisPos = 2
    /\ At(mData, 2) = lastOp.arg
    /\ mValToPos[lastOp.arg] = 2
    /\ run.phase = "off"

Vertices == 0..(NumVerts - 1)

EdgeWeightsBetween(edges, a, b) ==
    {edges[k].w : k \in {j \in 1..Len(edges) : {edges[j].v1, edges[j].v2} = {a, b}}}

SetMin(S) == CHOOSE x \in S : \A y \in S : x <= y

\* Total weights of all simple paths from v to d that avoid the visited set.
RECURSIVE PathCosts(_, _, _)
PathCosts(v, d, visited) ==
    IF v = d THEN {0}
    ELSE UNION {{w + c : w \in EdgeWeightsBetween(mEdges, v, u),
                         c \in PathCosts(u, d, visited \cup {u})} :
                u \in Vertices \ visited}

RECURSIVE Reach(_, _, _)
Reach(edges, T, R) ==
    LET R2 == R \cup {v \in Vertices :
                        \E k \in T, u \in R : {edges[k].v1, edges[k].v2} = {u, v}}
    IN  IF R2 = R THEN R ELSE Reach(edges, T, R2)

RECURSIVE SumWeights(_, _)
SumWeights(edges, T) ==
    IF T = {} THEN 0
    ELSE LET k == CHOOSE x \in T : TRUE
         IN  edges[k].w + SumWeights(edges, T \ {k})

TotalWeight(edges) == SumWeights(edges, 1..Len(edges))

InputConnected == Reach(mEdges, 1..Len(mEdges), {0}) = Vertices

SpanningTreeWeights ==
    {SumWeights(mEdges, T) :
        T \in {X \in SUBSET (1..Len(mEdges)) :
                  /\ Cardinality(X) = NumVerts - 1
                  /\ Reach(mEdges, X, {0}) = Vertices}}

IsScenario == mVertices = ScenarioVertices /\ mEdges = ScenarioEdges

\* C3: when Dijkstra(s, d), s # d, returns success, the distance returned
\* is the minimum total weight over all simple paths from s to d; on the
\* scenario A-B:1, B-C:2, A-C:4, C-D:1, Dijkstra(A, D) succeeds with 4.
C3_DijkstraDistance ==
    (gpc = "done" /\ alg = "Dijkstra" /\ sI # dI) =>
        /\ result => /\ PathCosts(sI, dI, {sI}) # {}
                     /\ outD = SetMin(PathCosts(sI, dI, {sI}))
        /\ (IsScenario /\ sI = 0 /\ dI = 3) => (result /\ outD = 4)

C3_Witness ==
    /\ gpc = "done" /\ alg = "Dijkstra"
    /\ IsScenario /\ sI = 0 /\ dI = 3
    /\ result /\ outD = 4 /\ outPath = <<3, 2, 1, 0>>

\* C4: for a connected graph and any source, Prim succeeds and the total
\* weight of the edges of the returned graph is the minimum total weight
\* among all spanning trees of the input graph.
C4_PrimMinimumWeight ==
    (gpc = "done" /\ alg = "Prim" /\ InputConnected) =>
        /\ result
        /\ TotalWeight(outGraph.mEdges) = SetMin(SpanningTreeWeights)

C4_Witness ==
    /\ gpc = "done" /\ alg = "Prim"
    /\ InputConnected
    /\ NumVerts = 3 /\ Len(mEdges) = 3
    /\ result
    /\ Len(outGraph.mEdges) = 2
    /\ TotalWeight(outGraph.mEdges) > 0
    /\ TotalWeight(outGraph.mEdges) < TotalWeight(mEdges)

\* The weight the input edge list gives the pair {a, b}: the weight of its
\* edge, maxValue without one.
ListedWeight(a, b) ==
    IF EdgeWeightsBetween(mEdges, a, b) = {} THEN mMaxValue
    ELSE SetMin(EdgeWeightsBetween(mEdges, a, b))

\* C15: on a graph whose store was built by UpdateEdges (endpoints below n,
\* at most one edge per pair), for distinct a and b the value obtained from
\* GetEdgeWeight(a, b) is the one obtained from GetEdgeWeight(b, a): the
\* weight of the edge {a, b} if one was added, maxValue otherwise.
C15_EdgeWeightLookup ==
    (alg = "GetEdgeWeight" /\ gpc # "idle") =>
        /\ gpc = "done"
        /\ lookup.read = ListedWeight(lookup.v1, lookup.v2)
        /\ lookup.read = ListedWeight(lookup.v2, lookup.v1)

\* C16: for the vertex count n of the graph and every pair 0 <= y < x < n,
\* GetIndexForCompact(x, y) is x - y - 1 + n*y - y*(y+1)/2 and lies in
\* [0, n(n-1)/2); distinct pairs get distinct slots, every slot is the slot
\* of a pair, and the store built by UpdateEdges has n(n-1)/2 slots.  No
\* query writes the graph, so it is stated of the graph as UpdateEdges left
\* it, before the call.
C16_CompactIndexBijection ==
    gpc = "idle" =>
        LET n    == NumVerts
            size == Len(mEdgesCompact)
            idx(p) == GetIndexForCompact(n, p[1], p[2])
        IN  /\ 2 * size = n * (n - 1)
            /\ \A p \in VertexPairs(n) :
                   /\ 2 * idx(p) = 2 * (p[1] - p[2] - 1) + 2 * n * p[2]
                                      - p[2] * (p[2] + 1)
                   /\ idx(p) >= 0 /\ idx(p) < size
            /\ \A p, q \in VertexPairs(n) : idx(p) = idx(q) => p = q
            /\ {idx(p) : p \in VertexPairs(n)} = 0..(size - 1)

C16_Witness ==
    /\ gpc = "idle"
    /\ NumVerts = 4
    /\ Len(mEdgesCompact) = 6
    /\ GetIndexForCompact(NumVerts, 3, 2) = 5
    /\ GetIndexForCompact(NumVerts, 2, 1) = 3
    /\ At(mEdgesCompact, 5) = 1 /\ At(mEdgesCompact, 3) = 2
    /\ At(mEdgesCompact, 2) = mMaxValue

\* The sum of the listed weights of the edges joining consecutive vertices
\* of path, from position k on.
RECURSIVE PathWeight(_, _)
PathWeight(path, k) ==
    IF k >= Len(path) THEN 0
    ELSE ListedWeight(path[k], path[k + 1]) + PathWeight(path, k + 1)

\* C17: when Dijkstra(s, d) with s # d returns success, the path starts
\* with d, ends with s, holds no vertex twice, every two consecutive
\* vertices are joined by a present edge, and the weights of these edges add
\* up to the returned distance.
C17_DijkstraPathShape ==
    (gpc = "done" /\ alg = "Dijkstra" /\ sI # dI /\ result) =>
        /\ Len(outPath) >= 2
        /\ outPath[1] = dI
        /\ outPath[Len(outPath)] = sI
        /\ \A i, j \in 1..Len(outPath) : outPath[i] = outPath[j] => i = j
        /\ \A i \in 1..(Len(outPath) - 1) :
               /\ EdgeWeightsBetween(mEdges, outPath[i], outPath[i + 1]) # {}
               /\ CompactWeight(NumVerts, mEdgesCompact, outPath[i], outPath[i + 1])
                      # mMaxValue
        /\ PathWeight(outPath, 1) = outD

C17_Witness ==
    /\ gpc = "done" /\ alg = "Dijkstra" /\ result
    /\ IsScenario
    /\ sI = 3 /\ dI = 0
    /\ outPath = <<0, 1, 2, 3>>
    /\ outD = 4

\* C18: when no path of present edges joins s and d, Dijkstra(s, d) ends
\* and returns failure; and a success never comes with the sentinel maxValue
\* as the distance or as the weight of an edge of the path.
C18_DijkstraDisconnected ==
    /\ (/\ alg = "Dijkstra" /\ sI # dI /\ gpc \in {"done", "undefined"}
        /\ PathCosts(sI, dI, {sI}) = {})
         => (gpc = "done" /\ ~result)
    /\ (gpc = "done" /\ alg = "Dijkstra" /\ sI # dI /\ result)
         => (/\ outD < mMaxValue
             /\ \A i \in 1..(Len(outPath) - 1) :
                    ListedWeight(outPath[i], outPath[i + 1]) < mMaxValue)

C18_Witness ==
    /\ gpc = "done" /\ alg = "Dijkstra" /\ ~result
    /\ NumVerts = 3 /\ Len(mEdges) = 1
    /\ sI # dI
    /\ PathCosts(sI, dI, {sI}) = {}
    /\ vW = mMaxValue
    /\ Len(toBeCh) = 0

\* C19: Dijkstra(s, d) with s # d fails exactly when d cannot be reached:
\* whenever present edges join s to d the call ends with success, also in
\* graphs where other vertices are cut off from s, and a success is only
\* returned for such a pair.
C19_DijkstraSucceedsWhenReachable ==
    (alg = "Dijkstra" /\ sI # dI /\ gpc \in {"done", "undefined"}) =>
        /\ PathCosts(sI, dI, {sI}) # {} => (gpc = "done" /\ result)
        /\ (gpc = "done" /\ result) => PathCosts(sI, dI, {sI}) # {}

\* A success on a graph where a third vertex has no edge at all.
C19_Witness ==
    /\ gpc = "done" /\ alg = "Dijkstra" /\ result
    /\ NumVerts = 3 /\ Len(mEdges) = 1
    /\ sI # dI
    /\ {mEdges[1].v1, mEdges[1].v2} = {sI, dI}
    /\ outPath = <<dI, sI>>

\* C20: for every graph and vertex s, the call Dijkstra(s, s) returns at
\* once with success, distance minValue and the path <<s>>, whatever the
\* output arguments held before; the frontier is never built and nothing is
\* extracted.
C20_DijkstraTrivialCase ==
    [][(gpc = "idle" /\ alg = "Dijkstra" /\ gpc' # "idle" /\ sI' = dI')
         => (/\ gpc' = "done"
             /\ result'
             /\ outD' = mMinValue
             /\ outPath' = <<sI'>>
             /\ toBeCh' = <<>> /\ predecessors' = <<>>
             /\ UNCHANGED <<vI, vW, relaxI>>)]_vars

C20_Witness ==
    /\ gpc = "done" /\ alg = "Dijkstra" /\ result
    /\ NumVerts = 3
    /\ sI = 2 /\ dI = 2
    /\ outPath = <<2>> /\ outD = mMinValue
    /\ toBeCh = <<>>
    /\ mEdges = <<>>

\* C21: Prim returns true exactly when every vertex can be reached from
\* the source through present edges, and the extraction of a vertex whose
\* key is still maxValue ends the call with false in that very step.
C21_PrimConnectedIff ==
    [][alg = "Prim" =>
         /\ (gpc = "loop" /\ toBeCh # <<>> /\ toBeCh[1].w = mMaxValue)
              => (gpc' = "done" /\ ~result')
         /\ (gpc # "done" /\ gpc' = "done")
              => (result' <=> Reach(mEdges, 1..Len(mEdges), {sI}) = Vertices)]_vars

C21_Witness ==
    /\ gpc = "done" /\ alg = "Prim" /\ ~result
    /\ NumVerts = 3 /\ Len(mEdges) = 1
    /\ sI \notin {mEdges[1].v1, mEdges[1].v2}
    /\ vW = mMaxValue
    /\ Len(toBeCh) = 1

\* The weight a graph object's own store gives the pair {a, b}.
StoredWeight(g, a, b) == CompactWeight(Len(g.mVertices), g.mEdgesCompact, a, b)

\* C22: when Prim succeeds on a graph of n vertices, the output edge list
\* has n-1 edges, one for every vertex other than the source, joining it to
\* its recorded predecessor; each is an edge of the input with the same
\* weight; together they connect all n vertices (so they hold no cycle); and
\* the output's compact store gives exactly these edges their weight and
\* every other pair maxValue.
C22_PrimSpanningTree ==
    (gpc = "done" /\ alg = "Prim" /\ result) =>
        LET E == outGraph.mEdges
        IN  /\ Len(E) = NumVerts - 1
            /\ \A v \in Vertices \ {sI} :
                   Cardinality({k \in 1..Len(E) :
                       {E[k].v1, E[k].v2} = {v, At(predecessors, v)}}) >= 1
            /\ \A j, k \in 1..Len(E) :
                   {E[j].v1, E[j].v2} = {E[k].v1, E[k].v2} => j = k
            /\ \A k \in 1..Len(E) :
                   /\ {E[k].v1, E[k].v2} \subseteq Vertices
                   /\ EdgeWeightsBetween(mEdges, E[k].v1, E[k].v2) = {E[k].w}
            /\ Reach(E, 1..Len(E), {sI}) = Vertices
            /\ 2 * Len(outGraph.mEdgesCompact)
                   = Len(outGraph.mVertices) * (Len(outGraph.mVertices) - 1)
            /\ \A p \in VertexPairs(Len(outGraph.mVertices)) :
                   StoredWeight(outGraph, p[1], p[2])
                       = IF EdgeWeightsBetween(E, p[1], p[2]) = {} THEN mMaxValue
                         ELSE SetMin(EdgeWeightsBetween(E, p[1], p[2]))

C22_Witness ==
    /\ gpc = "done" /\ alg = "Prim" /\ result
    /\ IsScenario /\ sI = 3
    /\ Len(outGraph.mVertices) = 6
    /\ outGraph.mEdges = <<[v1 |-> 0, v2 |-> 1, w |-> 1], [v1 |-> 1, v2 |-> 2, w |-> 2],
                           [v1 |-> 2, v2 |-> 3, w |-> 1]>>

\* C23: when Prim succeeds, the output graph's vertex sequence is the
\* input's vertex sequence and its edge list holds the n-1 tree edges only,
\* whatever the output object held before the call.
C23_PrimBuildsNewGraph ==
    (gpc = "done" /\ alg = "Prim" /\ result) =>
        /\ outGraph.mVertices = mVertices
        /\ Len(outGraph.mEdges) = NumVerts - 1
        /\ \A k \in 1..Len(outGraph.mEdges) :
               EdgeWeightsBetween(mEdges, outGraph.mEdges[k].v1, outGraph.mEdges[k].v2)
                   = {outGraph.mEdges[k].w}

\* C24: when Prim returns false, the output graph is as it was before the
\* call: one of the graphs the output object may have held, vertex list,
\* edge list and store alike.
C24_PrimFailureLeavesOutput ==
    (gpc = "done" /\ alg = "Prim" /\ ~result) => outGraph \in PriorOutGraphs

LiveGraph == IsScenario \/ \A k \in 1..Len(mEdges) : mEdges[k].w = MaxW

InitGraphLive == InitGraph /\ LiveGraph

\* The calls run to completion: the sequential code always takes its next
\* step.
SpecGraphLive == InitGraphLive /\ [][NextGraph]_vars /\ WF_vars(NextGraph)

\* C26: every Dijkstra and every Prim call on a graph with a built store
\* and valid arguments eventually returns, with success or with failure; in
\* particular the predecessor walk reaches the source and each decrease-key
\* pass ends.
C26_QueriesTerminate ==
    [](((alg = "Dijkstra" \/ alg = "Prim") /\ gpc # "done") => <>(gpc = "done"))

C26_Witness ==
    /\ gpc = "done" /\ alg = "Dijkstra" /\ result
    /\ IsScenario
    /\ sI = 1 /\ dI = 3
    /\ outPath = <<3, 2, 1>>
    /\ outD = 3
    /\ toBeCh = <<>>

\* The weight the edge list edges gives the pair {a, b}: that of the last
\* edge listed between them, maxValue when there is none.
WeightIn(edges, a, b) ==
    LET S == {k \in 1..Len(edges) : {edges[k].v1, edges[k].v2} = {a, b}}
    IN  IF S = {} THEN mMaxValue
        ELSE edges[CHOOSE k \in S : \A j \in S : j <= k].w

\* The position a surviving vertex had before position k was removed.
Before(k, a) == IF a >= k THEN a + 1 ELSE a

\* C27: after RemoveVertexAt(k) followed by UpdateEdges the vertex sequence is
\* the old one without position k, the edge list is the old one without the
\* edges that touched k, in order, each with its weight and with the endpoints
\* above k decremented by one, and the store answers for any two surviving
\* vertices with the weight the graph gave them before the removal.
C27_RemoveVertexThenUpdate ==
    (hist.op = "RemoveVertexAt" /\ ~hist.stale /\ alg = "none") =>
        LET k    == hist.arg[1]
            old  == hist.prev
            kept == SelectSeq(old.mEdges, LAMBDA e : e.v1 # k /\ e.v2 # k)
        IN  /\ NumVerts = Len(old.mVertices) - 1
            /\ \A a \in Vertices : At(mVertices, a) = At(old.mVertices, Before(k, a))
            /\ Len(mEdges) = Len(kept)
            /\ \A i \in 1..Len(kept) :
                   /\ Before(k, mEdges[i].v1) = kept[i].v1
                   /\ Before(k, mEdges[i].v2) = kept[i].v2
                   /\ mEdges[i].w = kept[i].w
            /\ Len(mEdgesCompact) = CompactSize(NumVerts)
            /\ \A a, b \in Vertices :
                   a # b => CompactWeight(NumVerts, mEdgesCompact, a, b)
                            = WeightIn(old.mEdges, Before(k, a), Before(k, b))

\* A removal of position 0 from three vertices that drops one edge and
\* renumbers the other, with the store rebuilt.
C27_Witness ==
    /\ hist.op = "RemoveVertexAt" /\ ~hist.stale /\ alg = "none"
    /\ hist.arg = <<0>>
    /\ Len(hist.prev.mVertices) = 3
    /\ hist.prev.mEdges = <<[v1 |-> 0, v2 |-> 1, w |-> 0], [v1 |-> 1, v2 |-> 2, w |-> 1]>>
    /\ mEdges = <<[v1 |-> 0, v2 |-> 1, w |-> 1]>>
    /\ mEdgesCompact = <<1>>

\* C28: whatever sequence of AddEdge (either argument order), RemoveVertexAt,
\* Clear and Prim reconstruction produced them, every edge of the graph's edge
\* list and of Prim's output edge list has v1 < v2, and a call of AddEdge with
\* v1 = v2 stops at the assertion and adds no edge.
C28_CanonicalEdges ==
    [][/\ \A k \in 1..Len(mEdges') : mEdges'[k].v1 < mEdges'[k].v2
       /\ \A k \in 1..Len(outGraph'.mEdges) :
              outGraph'.mEdges[k].v1 < outGraph'.mEdges[k].v2
       /\ (/\ Building /\ hist'.op = "AddEdge" /\ hist'.arg[1] = hist'.arg[2]
           /\ (gpc' # gpc \/ mEdges' # mEdges))
          => (gpc' = "aborted" /\ mEdges' = mEdges)]_vars

\* AddEdge(2, 0, 1) was called on a graph that had an edge and put (0, 2)
\* at the end of the list.
C28_Witness ==
    /\ hist.op = "AddEdge" /\ hist.arg = <<2, 0, 1>> /\ gpc = "idle"
    /\ Len(mEdges) = 2
    /\ mEdges[2] = [v1 |-> 0, v2 |-> 2, w |-> 1]

\* C29: a query that has to read the store (Dijkstra between two distinct
\* vertices, Prim on more than one vertex), called when a mutator ran after
\* the last UpdateEdges, does not run to a normal return on stale weights and
\* does not read outside the store: it ends in an error.
C29_StaleStoreFailsFast ==
    (/\ hist.stale
     /\ \/ alg = "Dijkstra" /\ sI # dI
        \/ alg = "Prim" /\ NumVerts > 1)
    => gpc \notin {"done", "undefined"}

\* The least squared distance from point to a point of data.
MinDistanceSq(point, data) ==
    SetMin({GetDistanceSq(point, data[i]) : i \in 1..Len(data)})

\* The number of elements of the tree array that are nodes.
NodeCount == Cardinality({i \in 0..(Len(mElements) - 1) : IsNode(mElements, i)})

\* C30: once a non-empty list of points was given to Initialize, the index
\* returned by FindNearestNeighbourIndex(p) is that of a node of the tree, and
\* the squared distance from p to that node's point is the least squared
\* distance from p to the points given.
C30_NearestNeighbour ==
    (kd.data # <<>> /\ kd.point # <<>>) =>
        /\ IsNode(mElements, kd.index)
        /\ GetDistanceSq(kd.point, GetElement(mElements, kd.index))
           = MinDistanceSq(kd.point, kd.data)

\* The same statement for the trees whose nodes are exactly the points of the
\* last Initialize (none is left of an earlier one).
NearestOnRebuiltTree ==
    (kd.data # <<>> /\ kd.point # <<>> /\ NodeCount = Len(kd.data)) =>
        /\ IsNode(mElements, kd.index)
        /\ GetDistanceSq(kd.point, GetElement(mElements, kd.index))
           = MinDistanceSq(kd.point, kd.data)

\* C31: in Dijkstra and Prim, after make_heap, after every pop_heap/pop_back
\* and after every HeapDecreaseKey the frontier toBeCh is a min-heap on w
\* (for every slot i > 0, toBeCh[(i-1)/2].w <= toBeCh[i].w), and the vertex
\* just extracted has a key no larger than any key left in the frontier.
C31_FrontierHeap ==
    (alg \in {"Dijkstra", "Prim"} /\ gpc \in {"loop", "relax", "done"}) =>
        /\ \A i \in 1..(Len(toBeCh) - 1) :
               At(toBeCh, (i - 1) \div 2).w <= At(toBeCh, i).w
        /\ ((gpc = "relax" /\ relaxI = 0) \/ gpc = "done") =>
               \A i \in 0..(Len(toBeCh) - 1) : vW <= At(toBeCh, i).w

\* On the scenario, after A was extracted, the pass over the frontier has
\* decreased the key of B to 1 and B sits at the root, above two vertices
\* that still carry the sentinel.
C31_Witness ==
    /\ alg = "Dijkstra" /\ IsScenario /\ sI = 0
    /\ gpc = "relax" /\ relaxI = 2
    /\ Len(toBeCh) = 3
    /\ At(toBeCh, 0) = [vI |-> 1, w |-> 1]
    /\ At(toBeCh, 1).vI = 3 /\ At(toBeCh, 1).w = mMaxValue
    /\ At(toBeCh, 2).w = mMaxValue

\* The vertices still in the frontier toBeCh.
Frontier(heap) == {heap[k].vI : k \in 1..Len(heap)}

\* The key the frontier holds for vertex u.
KeyOf(heap, u) == (CHOOSE e \in Range(heap) : e.vI = u).w

\* C32: during a Dijkstra call only vertices still in the frontier are
\* relaxed: no step changes the predecessor of an extracted vertex, an
\* extracted vertex never re-enters the frontier with a key, the keys of
\* frontier vertices only decrease, the predecessor of a vertex is none or a
\* vertex extracted while it was still in the frontier, and the predecessor
\* of the source stays none.
C32_DijkstraRelaxesFrontierOnly ==
    [][(alg = "Dijkstra" /\ gpc \in {"loop", "relax"}) =>
         /\ Frontier(toBeCh') \subseteq Frontier(toBeCh)
         /\ \A u \in Vertices \ Frontier(toBeCh) :
                At(predecessors', u) = At(predecessors, u)
         /\ \A u \in Frontier(toBeCh') :
                /\ KeyOf(toBeCh', u) <= KeyOf(toBeCh, u)
                /\ At(predecessors', u) \in
                       {-1} \cup (Vertices \ Frontier(toBeCh'))
                /\ At(predecessors', u) # At(predecessors, u) =>
                       (gpc = "relax" /\ At(predecessors', u) = vI)
         /\ At(predecessors', sI) = -1]_vars

\* On the scenario with source A: B was extracted after A and the pass over
\* the frontier moved the predecessor of C from A to B; C and D remain.
C32_Witness ==
    /\ alg = "Dijkstra" /\ IsScenario /\ sI = 0 /\ dI = 3
    /\ gpc = "loop"
    /\ predecessors = <<-1, 0, 1, -1>>
    /\ Frontier(toBeCh) = {2, 3}
    /\ KeyOf(toBeCh, 2) = 3

\* The weights of the listed edges between u and the vertices already
\* extracted from the frontier.
EdgesToExtracted(heap, u) ==
    UNION {EdgeWeightsBetween(mEdges, u, v) : v \in Vertices \ Frontier(heap)}

\* C33: at the start of every iteration of Prim's while loop, every frontier
\* vertex u other than the source has as key the smallest weight of an edge
\* between u and an extracted vertex (maxValue when there is none) and as
\* predecessor the extracted endpoint of an edge of that weight (none when
\* there is none); the key is an edge weight, never a cumulative distance.
C33_PrimKeyInvariant ==
    (alg = "Prim" /\ gpc = "loop") =>
        \A u \in Frontier(toBeCh) \ {sI} :
            IF EdgesToExtracted(toBeCh, u) = {}
            THEN /\ KeyOf(toBeCh, u) = mMaxValue
                 /\ At(predecessors, u) = -1
            ELSE /\ KeyOf(toBeCh, u) = SetMin(EdgesToExtracted(toBeCh, u))
                 /\ At(predecessors, u) \in Vertices \ Frontier(toBeCh)
                 /\ KeyOf(toBeCh, u) \in
                        EdgeWeightsBetween(mEdges, u, At(predecessors, u))

\* On the scenario with source A, after A and B were extracted: C is keyed
\* by the edge B-C of weight 2 (not by 1 + 2, and no longer by A-C of weight
\* 4) with predecessor B, and D has no edge to an extracted vertex.
C33_Witness ==
    /\ alg = "Prim" /\ IsScenario /\ sI = 0
    /\ gpc = "loop"
    /\ Frontier(toBeCh) = {2, 3}
    /\ EdgesToExtracted(toBeCh, 2) = {2, 4}
    /\ KeyOf(toBeCh, 2) = 2
    /\ KeyOf(toBeCh, 3) = mMaxValue
    /\ predecessors = <<-1, 0, 1, -1>>

\* The vertices in the slots the relaxation loop has not visited yet.
Pending(heap, i) == {At(heap, k).vI : k \in i..(Len(heap) - 1)}

\* C34: one pass of the relaxation loop of Dijkstra or Prim starts at slot 0
\* with every frontier vertex pending, each iteration examines the vertex in
\* slot i and leaves exactly the other pending vertices in the slots after
\* i, whatever HeapDecreaseKey swapped, and the pass ends only when no
\* vertex is pending: every frontier vertex is examined exactly once.
C34_RelaxationPassComplete ==
    [][(alg \in {"Dijkstra", "Prim"}) =>
         /\ (gpc = "loop" /\ gpc' = "relax") =>
                (/\ relaxI' = 0
                 /\ Cardinality(Frontier(toBeCh')) = Len(toBeCh'))
         /\ (gpc = "relax" /\ relaxI < Len(toBeCh)) =>
                (/\ gpc' = "relax"
                 /\ relaxI' = relaxI + 1
                 /\ Len(toBeCh') = Len(toBeCh)
                 /\ Frontier(toBeCh') = Frontier(toBeCh)
                 /\ Pending(toBeCh', relaxI') =
                        Pending(toBeCh, relaxI) \ {At(toBeCh, relaxI).vI})
         /\ (gpc = "relax" /\ gpc' # "relax") =>
                (Pending(toBeCh, relaxI) = {} /\ gpc' = "loop")]_vars

\* On the scenario with source A, the pass after the extraction of A has
\* visited all three slots and decreased the keys of B and C.
C34_Witness ==
    /\ alg = "Prim" /\ IsScenario /\ sI = 0
    /\ gpc = "relax" /\ relaxI = 3 /\ Len(toBeCh) = 3
    /\ vI = 0
    /\ KeyOf(toBeCh, 1) = 1 /\ KeyOf(toBeCh, 2) = 4
    /\ KeyOf(toBeCh, 3) = mMaxValue
    /\ At(toBeCh, 0).vI = 1

\* The true distance from s to v over the listed edges; maxValue when no
\* path joins them.
ShortestDistance(s, v) ==
    IF PathCosts(s, v, {s}) = {} THEN mMaxValue ELSE SetMin(PathCosts(s, v, {s}))

\* C35: in a Dijkstra call on a graph with non-negative weights, the first
\* vertex extracted is the source with key minValue, every later extraction
\* has a key no smaller than the one before, and the key of each extracted
\* vertex is its true shortest distance from the source (the sentinel
\* maxValue when it cannot be reached).
C35_DijkstraExtractionOrder ==
    [][(/\ alg = "Dijkstra" /\ gpc = "loop"
        /\ Len(toBeCh') < Len(toBeCh))
         => (/\ vI' \in Frontier(toBeCh) \ Frontier(toBeCh')
             /\ IF Len(toBeCh) = NumVerts
                THEN vI' = sI /\ vW' = mMinValue
                ELSE vW' >= vW
             /\ vW' = ShortestDistance(sI, vI'))]_vars

\* On the scenario with source A, C is the third vertex extracted, with key
\* 3 (through B, not the direct edge of weight 4), after B with key 1.
C35_Witness ==
    /\ alg = "Dijkstra" /\ IsScenario /\ sI = 0 /\ dI = 3
    /\ gpc = "relax" /\ relaxI = 0
    /\ vI = 2 /\ vW = 3
    /\ Frontier(toBeCh) = {3}
    /\ predecessors = <<-1, 0, 1, -1>>

\* ============================================== claims, queue part (cont.)
\* The arrays of distinct keys, and the position map that matches an array.
KeyArrays ==
    UNION {{a \in [1..n -> Keys] : \A i, j \in 1..n : a[i] = a[j] => i = j} :
           n \in 0..NumKeys}

PositionsOf(data) ==
    [k \in Range(data) |-> (CHOOSE i \in 1..Len(data) : data[i] = k) - 1]

\* The heap invariant holds for every parent-child pair that does not
\* involve slot i.
HeapExceptAt(kind, data, i) ==
    \A j \in 1..(Len(data) - 1) :
        (j # i /\ GetParentPosition(j) # i) =>
            ~Comp(kind, At(data, GetParentPosition(j)), At(data, j))

ExclusivePhases(st) == st.ups > 0 => st.downs = 0

\* C36: an UpdatePriority(i) call that makes an upward swap makes no
\* downward swap: for both comparators and every array of distinct keys that
\* is a heap except possibly at slot i, and for the UpdatePriority call of
\* every Add, Remove and Update that can be made in a reachable state.
C36_PhasesExclusive ==
    /\ lastOp.op = "ctor" =>
           \A kind \in {"less", "greater"}, data \in KeyArrays :
               \A i \in 0..(Len(data) - 1) :
                   HeapExceptAt(kind, data, i) =>
                       ExclusivePhases(
                           UpdatePriority(kind, HeapState(data, PositionsOf(data)), i).st)
    /\ (status = "running" /\ PosConsistent(mData, mValToPos)) =>
           /\ \A e \in Keys \ DOMAIN mValToPos :
                  ExclusivePhases(AddCore(mComp, mData, mValToPos, e))
           /\ mData # <<>> =>
                  ExclusivePhases(RemoveCore(mComp, mData, mValToPos).st)
           /\ \A h \in 1..Len(handles), newVal \in Keys \ DOMAIN mValToPos :
                  handles[h].mThisPos < Len(mData) =>
                      ExclusivePhases(UpdateCore(mComp, mData, mValToPos,
                                                 handles[h].mThisPos, newVal).st)

\* Update(4) through the handle of the key at slot 1 of the heap 3, 2, 1
\* (std::less): the new key was swapped with the root and stayed there.
C36_Witness ==
    /\ status = "running" /\ mComp = "less"
    /\ lastOp = Call("Update", 4, "true", 0)
    /\ mData = <<4, 3, 1>>
    /\ handles = <<[mThisPos |-> 0]>>

\* Neither key outranks the other under the comparator.
Tied(kind, a, b) == ~Comp(kind, a, b) /\ ~Comp(kind, b, a)

\* The step is a Remove whose bubble-down phase starts at the root with two
\* children present that tie and that both outrank the element moved there.
RemoveMeetsTie ==
    /\ status = "running" /\ mLock = 0
    /\ Len(mData) >= 4
    /\ lastOp'.op = "Remove"
    /\ Tied(mComp, At(mData, 1), At(mData, 2))
    /\ Comp(mComp, mData[Len(mData)], At(mData, 1))

\* C37 as stated: in the bubble-down phase, when both children exist and
\* tie under the comparator, the right child is the one selected for the
\* comparison and the swap.
C37_RightChildWinsTies ==
    [][RemoveMeetsTie =>
         (At(mData', 0) = At(mData, 2) /\ At(mData', 1) = At(mData, 1))]_vars

\* C37 as amended: in the bubble-down phase, when both children exist and
\* tie under the comparator, the left child is the one selected for the
\* comparison and the swap; the right child stays where it is.
C37_LeftChildWinsTies ==
    [][RemoveMeetsTie =>
         (At(mData', 0) = At(mData, 1) /\ At(mData', 2) = At(mData, 2))]_vars

\* Remove on the heap 4, 2, 3, 1 under the coarse comparator: 1 came to the
\* root above the tied keys 2 and 3 and was swapped with the left one.
C37_Witness ==
    /\ status = "running" /\ mComp = "coarse"
    /\ lastOp = Call("Remove", 0, "ok", 4)
    /\ mData = <<2, 1, 3>>

\* C38: after any sequence of Add, Remove, Clear, Update and
\* GetElementHandle calls (GetElementHandle for any key, in the queue or
\* not), the keys of the position map are exactly the elements of the heap
\* array and the two containers have the same size.
C38_MapAndHeapSameKeys ==
    status = "running" =>
        /\ DOMAIN mValToPos = Range(mData)
        /\ Cardinality(DOMAIN mValToPos) = Len(mData)

\* ============================================== claims, graph part (cont.)
\* C39: whatever the two outputs held before the call, from the entry of a
\* Dijkstra(s, d) call with s # d until it returns false the output path is
\* empty and the output distance is minValue; so they are whenever Dijkstra
\* returns false.
C39_DijkstraFailureOutputs ==
    (/\ alg = "Dijkstra"
     /\ \/ gpc \in {"loop", "relax"}
        \/ gpc = "done" /\ ~result)
      => (outPath = <<>> /\ outD = mMinValue)

\* Dijkstra(1, 0) on two vertices without an edge has returned false after
\* extracting the destination with the sentinel key.
C39_Witness ==
    /\ alg = "Dijkstra" /\ gpc = "done" /\ ~result
    /\ NumVerts = 2 /\ mEdges = <<>>
    /\ sI = 1 /\ dI = 0
    /\ vI = 0 /\ vW = mMaxValue
    /\ outPath = <<>> /\ outD = mMinValue

\* Total weights of the simple paths from v to d that avoid the visited set,
\* each pair of vertices weighing what its last listed edge weighs.
RECURSIVE LastEdgePathCosts(_, _, _)
LastEdgePathCosts(v, d, visited) ==
    IF v = d THEN {0}
    ELSE UNION {{WeightIn(mEdges, v, u) + c :
                    c \in LastEdgePathCosts(u, d, visited \cup {u})} :
                u \in {x \in Vertices \ visited : WeightIn(mEdges, v, x) # mMaxValue}}

\* The store is up to date and the edge list names some pair twice.
FreshWithDuplicate == ~hist.stale /\ mEdgesCompact # <<>> /\ HasDuplicateEdge(mEdges)

\* C40: when AddEdge was called more than once for a pair of vertices, after
\* UpdateEdges the weight a caller obtains from GetEdgeWeight for every pair,
\* the distance Dijkstra returns and the weights of the edges Prim puts in
\* its output are those of the graph in which each pair weighs what its
\* last-added edge weighs.
C40_LastDuplicateWins ==
    FreshWithDuplicate =>
        /\ (alg = "GetEdgeWeight" /\ gpc # "idle") =>
               /\ gpc = "done"
               /\ lookup.read = WeightIn(mEdges, lookup.v1, lookup.v2)
        /\ (alg = "Dijkstra" /\ gpc = "done" /\ sI # dI) =>
               /\ result <=> LastEdgePathCosts(sI, dI, {sI}) # {}
               /\ result => outD = SetMin(LastEdgePathCosts(sI, dI, {sI}))
        /\ (alg = "Prim" /\ gpc = "done" /\ result) =>
               \A k \in 1..Len(outGraph.mEdges) :
                   outGraph.mEdges[k].w =
                       WeightIn(mEdges, outGraph.mEdges[k].v1, outGraph.mEdges[k].v2)

\* What holds of the code: the store built by UpdateEdges, the local copy
\* GetEdgeWeight makes of the slot, Dijkstra and Prim all use the weight of
\* the last-added edge of each pair.
LastDuplicateInStore ==
    FreshWithDuplicate =>
        /\ \A a, b \in Vertices :
               a # b => CompactWeight(NumVerts, mEdgesCompact, a, b)
                            = WeightIn(mEdges, a, b)
        /\ (alg = "GetEdgeWeight" /\ gpc # "idle") =>
               lookup.edgeW = WeightIn(mEdges, lookup.v1, lookup.v2)
        /\ (alg = "Dijkstra" /\ gpc = "done" /\ sI # dI) =>
               /\ result <=> LastEdgePathCosts(sI, dI, {sI}) # {}
               /\ result => outD = SetMin(LastEdgePathCosts(sI, dI, {sI}))
        /\ (alg = "Prim" /\ gpc = "done" /\ result) =>
               \A k \in 1..Len(outGraph.mEdges) :
                   outGraph.mEdges[k].w =
                       WeightIn(mEdges, outGraph.mEdges[k].v1, outGraph.mEdges[k].v2)

====
